---- MODULE Spec2Model ----
(***************************************************************************)
(* Harmony user-identity backend: registration, login and lockout, token   *)
(* issuance and renewal, password change, account role/status management,  *)
(* profiles.                                                               *)
(*                                                                         *)
(* Time is a natural number of clock ticks, TicksPerSecond ticks to the    *)
(* second.  A datetime is None (<<>>) or <<t, aware>>: t in ticks, aware   *)
(* TRUE when the Python object carries tzinfo.  A service call reads the   *)
(* clock at `now` and takes one tick, so the clock readings of calls made  *)
(* one after the other are strictly increasing.                            *)
(***************************************************************************)
EXTENDS Integers, Sequences, FiniteSets, TLC

VARIABLES
    users,      \* the users table: account id -> row
    now,        \* the wall clock, in ticks
    tokens,     \* every token issued so far
    last,       \* the latest service call: operation, inputs, outcome
    budget,     \* [ops, jumps]: service calls made and idle periods elapsed
    streak,     \* per account: wrong-password login calls in a row
    failAt,     \* per account: clock reading of the latest failed attempt
    pc,         \* per request: position inside AuthService.login
    sess,       \* per request: the row held by the request's ORM session
    reqNow,     \* per request: the value of `now` read at line 58
    reqOut,     \* per request: outcome of the request
    profiles,   \* the user_profiles table: account id -> row
    requests,   \* RateLimiter.requests: key -> [count, first_request]
    calls       \* every is_allowed call so far: key, clock reading, result

vars == <<users, now, tokens, last, budget, streak, failAt, pc, sess, reqNow, reqOut,
          profiles, requests, calls>>

seqVars  == <<users, now, tokens, last, budget, streak, failAt, profiles, requests, calls>>
concVars == <<pc, sess, reqNow, reqOut>>
rateVars == <<requests, calls>>

----------------------------------------------------------------------------
(* Bounds of the model *)

TicksPerSecond == 3
MaxOps == 8
MaxTokenOps == 4
NumRequests == 2
MaxRetries == 1
MaxJumps == 2
MaxStoreOps == 4
MaxTokenJumps == 1
MaxStatusOps == 3
RateMaxRequests == 2
RateWindow == 2
MaxRateCalls == 5
MaxRateTime == 4

(* Program constants *)

LOCKOUT_THRESHOLD == 5
LOCKOUT_MINUTES == 15
ACCESS_TOKEN_EXPIRE_MINUTES == 60
REFRESH_TOKEN_DAYS == 7

Minute == 60 * TicksPerSecond
Day == 24 * 60 * Minute

----------------------------------------------------------------------------
(* Datetimes *)

None == <<>>

Aware(t) == <<t, TRUE>>

\* datetime + timedelta keeps the tzinfo of the datetime
DtPlus(dt, d) == <<dt[1] + d, dt[2]>>

\* a DateTime column (timezone=False) gives back a naive datetime
DbDateTime(dt) == IF dt = None THEN None ELSE <<dt[1], FALSE>>

\* a > b on datetimes: comparing a naive with an aware one raises TypeError
DtGt(a, b) ==
    IF a[2] # b[2] THEN "TypeError"
    ELSE IF a[1] > b[1] THEN "True" ELSE "False"

\* password_changed_at.replace(tzinfo=timezone.utc) when stored naive
AssumeUtc(dt) == IF dt[2] THEN dt ELSE <<dt[1], TRUE>>

----------------------------------------------------------------------------
(* Credential hasher *)

Passwords == {"Abc12345!", "Xyz98765?"}
WrongPassword == "Wrong0000!"

hash_password(p) == <<"bcrypt", p>>

verify_password(p, h) == h = hash_password(p)

----------------------------------------------------------------------------
(* The users table *)

Roles == {"user", "clinician", "admin"}

\* models.Status, the column's enumeration
Status == {"active", "banned", "suspended", "deactivated"}

\* the row user_crud.create_user inserts
NewUserRow(email, password_hash, role) ==
    [email |-> email,
     password_hash |-> password_hash,
     role |-> role,
     status |-> "active",
     last_login_at |-> None,
     failed_login_attempts |-> 0,
     lockout_until |-> None,
     password_changed_at |-> None,
     phone_number |-> None]

\* the account ids in use: the strings UUID() parses
Ids == {"u1", "u2", "u3"}

get_user_by_email(email) == {u \in DOMAIN users : users[u].email = email}

get_user_by_id(id) == {u \in DOMAIN users : u = id}

\* a phone number is None or <<digits>>
get_user_by_phone(phone_number) ==
    {u \in DOMAIN users : users[u].phone_number = phone_number}

----------------------------------------------------------------------------
(* The user_profiles table.  A row's key is the id of the account it       *)
(* belongs to; privacy_settings is None or a mapping from flag to boolean. *)

ProfileFields ==
    {"full_name", "date_of_birth", "gender", "location", "timezone",
     "primary_pillar_weights", "medications", "conditions", "crisis_contact",
     "preferred_language", "privacy_settings", "last_updated_at"}

\* the row profile_crud.create_profile inserts for ProfileCreate() at time t
NewProfileRow(t) ==
    [f \in ProfileFields |->
        IF f = "last_updated_at" THEN DbDateTime(Aware(t)) ELSE None]

get_profile_by_user_id(id) == {u \in DOMAIN profiles : u = id}

----------------------------------------------------------------------------
(* Tokens.  key is the secret the token is signed with; iat and exp are   *)
(* whole seconds, as the JWT encoder writes them; type is "refresh" or     *)
(* "none" (claim absent); at is the clock reading at issue (not a claim of *)
(* the token, only read by the properties).                                *)

\* settings.SECRET_KEY and settings.REFRESH_SECRET_KEY
SECRET_KEY_shared == "Harmonysecretkey"

SECRET_KEY == "Supersecretkey"
REFRESH_SECRET_KEY == "Harmonysecretkey"

\* timegm(dt.utctimetuple()): a datetime claim is cut to whole seconds
ToTimestamp(t) == t \div TicksPerSecond

\* datetime.fromtimestamp(iat, tz=timezone.utc)
FromTimestamp(s) == Aware(s * TicksPerSecond)

create_access_token_expired(sub, email, t) ==
    [key |-> SECRET_KEY, sub |-> sub, email |-> email,
     exp |-> ToTimestamp(t) - 1,
     iat |-> ToTimestamp(t), type |-> "none", at |-> t]

create_access_token(sub, email, t) ==
    [key |-> SECRET_KEY, sub |-> sub, email |-> email,
     exp |-> ToTimestamp(t + ACCESS_TOKEN_EXPIRE_MINUTES * Minute),
     iat |-> ToTimestamp(t), type |-> "none", at |-> t]

create_refresh_token(sub, email, t) ==
    [key |-> REFRESH_SECRET_KEY, sub |-> sub, email |-> email,
     exp |-> ToTimestamp(t + REFRESH_TOKEN_DAYS * Day),
     iat |-> ToTimestamp(t), type |-> "refresh", at |-> t]

\* payload.get("sub") of a token that carries no subject
NoSub == ""

\* jwt.decode(token, key): "ok", or the reason the decoder raises
jwt_decode(tok, key, t) ==
    IF tok.key # key THEN "bad_signature"
    ELSE IF tok.exp < ToTimestamp(t) THEN "expired"
    ELSE "ok"

----------------------------------------------------------------------------
(* AuthService.login *)

LockoutReached_after(n) == n > LOCKOUT_THRESHOLD

LockoutReached(n) == n >= LOCKOUT_THRESHOLD

\* "locked", "TypeError" or "open": the test of line 59 on a stored row
LockoutCheck(row, t) ==
    IF row.lockout_until = None THEN "open"
    ELSE LET c == DtGt(row.lockout_until, Aware(t))
         IN  IF c = "TypeError" THEN "TypeError"
             ELSE IF c = "True" THEN "locked" ELSE "open"

\* the row after a failed password verification at time t
FailedAttemptRow(row, t) ==
    LET inc == [row EXCEPT !.failed_login_attempts = @ + 1]
    IN  IF LockoutReached(inc.failed_login_attempts)
        THEN [inc EXCEPT !.lockout_until =
                  DbDateTime(DtPlus(Aware(t), LOCKOUT_MINUTES * Minute))]
        ELSE inc

\* the row after a successful password verification at time t
SuccessRow(row, t) ==
    [row EXCEPT !.failed_login_attempts = 0,
                !.last_login_at = DbDateTime(Aware(t))]

\* login on an existing row: [kind, msg, row, issued]
LoginOnRow(u, row, password, t) ==
    LET lc == LockoutCheck(row, t) IN
    IF lc = "TypeError"
    THEN [kind |-> "TypeError", msg |-> "naive vs aware", row |-> row, issued |-> {}]
    ELSE IF lc = "locked"
    THEN [kind |-> "Unauthorized", msg |-> "Account is locked. Try again later.",
          row |-> row, issued |-> {}]
    ELSE IF ~verify_password(password, row.password_hash)
    THEN [kind |-> "Unauthorized", msg |-> "Invalid email or password",
          row |-> FailedAttemptRow(row, t), issued |-> {}]
    ELSE [kind |-> "ok", msg |-> "bearer", row |-> SuccessRow(row, t),
          issued |-> {create_access_token(u, row.email, t),
                      create_refresh_token(u, row.email, t)}]

Spend == budget' = [budget EXCEPT !.ops = @ + 1]

\* keep: whether the caller holds on to the tokens it is handed
Login(email, password, keep) ==
    /\ Spend
    /\ now' = now + 1
    /\ IF get_user_by_email(email) = {}
       THEN /\ last' = [op |-> "login", email |-> email, password |-> password,
                        found |-> FALSE, at |-> now,
                        kind |-> "Unauthorized", msg |-> "Invalid email or password",
                        issued |-> {}]
            /\ UNCHANGED <<users, tokens, streak, failAt>>
       ELSE LET u == CHOOSE x \in get_user_by_email(email) : TRUE
                r == LoginOnRow(u, users[u], password, now)
                bad == ~verify_password(password, users[u].password_hash)
            IN  /\ users' = [users EXCEPT ![u] = r.row]
                /\ tokens' = IF keep THEN tokens \cup r.issued ELSE tokens
                /\ last' = [op |-> "login", email |-> email, password |-> password,
                            found |-> TRUE, user |-> u, pre |-> users[u], at |-> now,
                            kind |-> r.kind, msg |-> r.msg, issued |-> r.issued]
                /\ streak' = [streak EXCEPT ![u] =
                                 IF bad THEN @ + 1 ELSE IF r.kind = "ok" THEN 0 ELSE @]
                /\ failAt' = [failAt EXCEPT ![u] = IF bad THEN now ELSE @]
    /\ UNCHANGED <<concVars, profiles, rateVars>>

\* time passes with no request being served
Tick(d) ==
    /\ budget' = [budget EXCEPT !.jumps = @ + 1]
    /\ now' = now + d
    /\ UNCHANGED <<users, tokens, last, streak, failAt>>
    /\ UNCHANGED <<concVars, profiles, rateVars>>

----------------------------------------------------------------------------
(* AuthService.refresh_token, verify_token, change_password *)

validate_token_issue_time_skipped(row, token_issue_time) == TRUE

\* FALSE when the token was issued before the password was last changed
validate_token_issue_time(row, token_issue_time) ==
    IF row.password_changed_at = None THEN TRUE
    ELSE DtGt(AssumeUtc(row.password_changed_at), token_issue_time) # "True"

\* the outcome of AuthService.refresh_token at time t
RefreshKind(tok, t) ==
    IF jwt_decode(tok, REFRESH_SECRET_KEY, t) # "ok" THEN "Unauthorized"
    ELSE IF tok.type # "refresh" THEN "Unauthorized"
    ELSE IF tok.sub = NoSub THEN "Unauthorized"
    ELSE IF tok.sub \notin Ids THEN "ValidationFailed"
    ELSE IF get_user_by_id(tok.sub) = {} THEN "NotFound"
    ELSE IF tok.iat = 0 THEN "Unauthorized"
    ELSE IF ~validate_token_issue_time(users[tok.sub], FromTimestamp(tok.iat))
    THEN "Unauthorized"
    ELSE "ok"

RefreshIssued_rotating(tok, t) ==
    {create_access_token(tok.sub, users[tok.sub].email, t),
     create_refresh_token(tok.sub, users[tok.sub].email, t)}

\* lines 147-157: the tokens a successful refresh returns
RefreshIssued(tok, t) == {create_access_token(tok.sub, users[tok.sub].email, t)}

RefreshToken(tok) ==
    LET k == RefreshKind(tok, now)
        new == IF k = "ok" THEN RefreshIssued(tok, now) ELSE {}
    IN  /\ Spend
        /\ now' = now + 1
        /\ tokens' = tokens \cup new
        /\ last' = [op |-> "refresh_token", tok |-> tok, at |-> now, kind |-> k,
                    issued |-> new]
        /\ UNCHANGED <<users, streak, failAt>>
        /\ UNCHANGED <<concVars, profiles, rateVars>>

\* the outcome of AuthService.verify_token at time t
VerifyKind(tok, t) ==
    IF jwt_decode(tok, SECRET_KEY, t) # "ok" THEN "Unauthorized"
    ELSE IF tok.sub = NoSub THEN "TypeError"
    ELSE IF tok.sub \notin Ids THEN "ValueError"
    ELSE IF get_user_by_id(tok.sub) = {} THEN "Unauthorized"
    ELSE "ok"

\* the payload jwt.decode returns
Payload(tok) ==
    [sub |-> tok.sub, email |-> tok.email, exp |-> tok.exp, iat |-> tok.iat,
     type |-> tok.type]

VerifyToken(tok) ==
    /\ Spend
    /\ now' = now + 1
    /\ last' = [op |-> "verify_token", tok |-> tok, at |-> now,
                kind |-> VerifyKind(tok, now),
                claims |-> IF VerifyKind(tok, now) = "ok" THEN Payload(tok) ELSE None]
    /\ UNCHANGED <<users, tokens, streak, failAt>>
    /\ UNCHANGED <<concVars, profiles, rateVars>>

PasswordChangedRow_hash_only(row, new_password, t) ==
    [row EXCEPT !.password_hash = hash_password(new_password)]

\* the row after AuthService.change_password at time t
PasswordChangedRow(row, new_password, t) ==
    [row EXCEPT !.password_hash = hash_password(new_password),
                !.password_changed_at = DbDateTime(Aware(t))]

ChangePassword(user_id, new_password) ==
    LET k == IF get_user_by_id(user_id) = {} THEN "NotFound" ELSE "ok" IN
    /\ Spend
    /\ now' = now + 1
    /\ users' = IF k = "ok"
                THEN [users EXCEPT ![user_id] = PasswordChangedRow(@, new_password, now)]
                ELSE users
    /\ last' = [op |-> "change_password", user |-> user_id, at |-> now, kind |-> k]
    /\ UNCHANGED <<tokens, streak, failAt>>
    /\ UNCHANGED <<concVars, profiles, rateVars>>

\* the route's test of the old password
OldPasswordMatches_skipped(old_password, password_hash) == TRUE

OldPasswordMatches(old_password, password_hash) ==
    verify_password(old_password, password_hash)

\* POST /me/change-password with the bearer token tok
ChangePasswordRoute(tok, old_password, new_password) ==
    LET auth == VerifyKind(tok, now)
        kind == IF auth # "ok" THEN "HTTP401"
                ELSE IF ~OldPasswordMatches(old_password, users[tok.sub].password_hash)
                THEN "incorrect"
                ELSE "ok"
    IN  /\ Spend
        /\ now' = now + 1
        /\ users' = IF kind = "ok"
                    THEN [users EXCEPT ![tok.sub] = PasswordChangedRow(@, new_password, now)]
                    ELSE users
        /\ last' = [op |-> "change_password_route", tok |-> tok, at |-> now,
                    old_password |-> old_password, kind |-> kind,
                    user |-> IF auth = "ok" THEN tok.sub ELSE "none",
                    reqRole |-> IF auth = "ok" THEN users[tok.sub].role ELSE "none",
                    pre |-> IF auth = "ok" THEN users[tok.sub] ELSE None]
        /\ UNCHANGED <<tokens, streak, failAt>>
        /\ UNCHANGED <<concVars, profiles, rateVars>>

----------------------------------------------------------------------------
(* UserService: update_user, update_user_status, delete_user.  A requester *)
(* is an account id, or Anonymous for requesting_user = None; the          *)
(* requester's role is the one the users table holds for it at the call.   *)

Anonymous == "anonymous"
Unset == "unset"

\* UserState of user_service.py: the values update_user_status lets through
UserState == {"active", "suspended", "deactivated", "deleted"}

\* the list user_crud.status_update accepts
CrudStatus == {"active", "banned", "suspended", "deactivated"}

RoleOf(req) == IF req \in DOMAIN users THEN users[req].role ELSE "none"

IsAdmin_or_clinician(role) == role \in {"admin", "clinician"}

\* requesting_user.role == UserRole.admin, the only test made of a role
IsAdmin(role) == role = "admin"

\* user_crud.update_user: setattr of every field the request has set
UpdatedRow(row, upd) ==
    [row EXCEPT !.role = IF upd.role = Unset THEN @ ELSE upd.role,
                !.status = IF upd.status = Unset THEN @ ELSE upd.status]

\* the outcome of UserService.update_user for a requester holding role
UpdateUserKindAs(req, role, target) ==
    IF get_user_by_id(target) = {} THEN "NotFound"
    ELSE IF req = Anonymous THEN "PermissionDenied"
    ELSE IF req # target /\ ~IsAdmin(role) THEN "PermissionDenied"
    ELSE "ok"

UpdateUserKind(req, target) == UpdateUserKindAs(req, RoleOf(req), target)

UpdateUser(req, target, upd) ==
    LET k == UpdateUserKind(req, target) IN
    /\ users' = IF k = "ok"
                THEN [users EXCEPT ![target] = UpdatedRow(@, upd)]
                ELSE users
    /\ last' = [op |-> "update_user", req |-> req, reqRole |-> RoleOf(req),
                target |-> target, upd |-> upd, kind |-> k]
    /\ UNCHANGED <<now, tokens, budget, streak, failAt>>
    /\ UNCHANGED <<concVars, profiles, rateVars>>

GetUserKind_authorize_first(req, target) ==
    IF req = Anonymous THEN "PermissionDenied"
    ELSE IF req # target /\ ~IsAdmin(RoleOf(req)) THEN "PermissionDenied"
    ELSE IF get_user_by_id(target) = {} THEN "NotFound"
    ELSE "ok"

\* the outcome of UserService.get_user_by_id: the lookup, then the requester
GetUserKind(req, target) ==
    IF get_user_by_id(target) = {} THEN "NotFound"
    ELSE IF req = Anonymous THEN "PermissionDenied"
    ELSE IF req # target /\ ~IsAdmin(RoleOf(req)) THEN "PermissionDenied"
    ELSE "ok"

\* out is the account's UserOut; the call writes nothing
GetUserById(req, target) ==
    LET k == GetUserKind(req, target) IN
    /\ last' = [op |-> "get_user_by_id", req |-> req, reqRole |-> RoleOf(req),
                target |-> target, kind |-> k,
                out |-> IF k = "ok" THEN <<users[target]>> ELSE None]
    /\ UNCHANGED <<users, now, tokens, budget, streak, failAt>>
    /\ UNCHANGED <<concVars, profiles, rateVars>>

\* the outcome of UserService.update_user_status for a requester holding role
UpdateStatusKindAs(req, role, target, status) ==
    IF get_user_by_id(target) = {} THEN "NotFound"
    ELSE IF req # Anonymous /\ ~IsAdmin(role) THEN "PermissionDenied"
    ELSE IF status \notin UserState THEN "ValidationFailed"
    ELSE IF status \notin CrudStatus THEN "ValueError"
    ELSE "ok"

UpdateStatusKind_no_repeat(req, target, status) ==
    IF target \in DOMAIN users /\ users[target].status = status THEN "Conflict"
    ELSE UpdateStatusKindAs(req, RoleOf(req), target, status)

UpdateStatusKind(req, target, status) ==
    UpdateStatusKindAs(req, RoleOf(req), target, status)

StatusRow_revoking(row, status) ==
    [row EXCEPT !.status = status, !.password_changed_at = DbDateTime(Aware(now))]

\* user_crud.status_update: the row with db_user.status = status
StatusRow(row, status) == [row EXCEPT !.status = status]

UpdateUserStatus(req, target, status) ==
    LET k == UpdateStatusKind(req, target, status) IN
    /\ users' = IF k = "ok"
                THEN [users EXCEPT ![target] = StatusRow(@, status)]
                ELSE users
    /\ last' = [op |-> "update_user_status", req |-> req, reqRole |-> RoleOf(req),
                target |-> target, status |-> status, kind |-> k,
                pre |-> IF target \in DOMAIN users THEN users[target].status ELSE "none"]
    /\ UNCHANGED <<now, tokens, budget, streak, failAt>>
    /\ UNCHANGED <<concVars, profiles, rateVars>>

\* the outcome of UserService.delete_user for a requester holding role
DeleteUserKindAs(req, role, target) ==
    IF get_user_by_id(target) = {} THEN "NotFound"
    ELSE IF req # Anonymous /\ req # target /\ ~IsAdmin(role)
    THEN "PermissionDenied"
    ELSE "ok"

DeleteUserKind(req, target) == DeleteUserKindAs(req, RoleOf(req), target)

Cascade_none(target) == profiles

\* cascade="all, delete-orphan" and ondelete="CASCADE": the profiles left
\* when the account target is removed
Cascade(target) == [u \in DOMAIN profiles \ {target} |-> profiles[u]]

DeleteUser(req, target, hard) ==
    LET k == DeleteUserKind(req, target) IN
    /\ users' = IF k # "ok" THEN users
                ELSE IF hard
                THEN [u \in DOMAIN users \ {target} |-> users[u]]
                ELSE [users EXCEPT ![target] = StatusRow(@, "deactivated")]
    \* the relationship's cascade removes the profile with the account
    /\ profiles' = IF k = "ok" /\ hard THEN Cascade(target) ELSE profiles
    /\ last' = [op |-> "delete_user", req |-> req, reqRole |-> RoleOf(req),
                target |-> target, hard |-> hard, kind |-> k,
                hadProfile |-> target \in DOMAIN profiles]
    /\ UNCHANGED <<now, tokens, budget, streak, failAt>>
    /\ UNCHANGED <<concVars, rateVars>>

----------------------------------------------------------------------------
(* ProfileService: get_profile, update_profile, update_profile_privacy,    *)
(* delete_profile, create_profile.  A nullable field holds None or         *)
(* Some(v) = <<v>>; a privacy mapping is Some of a function from flag name *)
(* to boolean.                                                             *)

Some(v) == <<v>>

\* ProfileOut declares every field without a default: all are required
ProfileOutRequired == ProfileFields \cup {"id"}

\* ProfileOut(**fields): pydantic raises ValidationError for a missing
\* required field and ignores keys the schema does not declare
ProfileOutCtor(fields) ==
    IF ProfileOutRequired \subseteq DOMAIN fields
    THEN [kind |-> "ok", out |-> [f \in ProfileOutRequired |-> fields[f]]]
    ELSE [kind |-> "pydantic.ValidationError", out |-> None]

\* ProfileOut.model_validate(profile): every column of the row, by attribute
ModelValidate(id, row) ==
    ProfileOutCtor([f \in ProfileOutRequired |-> IF f = "id" THEN id ELSE row[f]])

\* lines 209-219: the fields the filter passes to ProfileOut
FilteredFields(id) ==
    [f \in {"id", "full_name", "bio", "location", "date_of_birth", "gender",
            "timezone", "crisis_contact", "privacy_settings"} |->
        IF f = "id" THEN id
        ELSE IF f = "privacy_settings" THEN Some([show_profile |-> FALSE])
        ELSE None]

IsOwnerOrAdmin_never(req, id) == FALSE

\* lines 194-197: the viewer, holding role, is the owner or an admin
IsOwnerOrAdminAs(req, role, id) ==
    req # Anonymous /\ (req = id \/ IsAdmin(role))

IsOwnerOrAdmin(req, id) == IsOwnerOrAdminAs(req, RoleOf(req), id)

\* privacy_settings.get("show_profile", True) on a mapping that is truthy
HidesProfile(ps) ==
    /\ ps # None
    /\ DOMAIN ps[1] # {}
    /\ "show_profile" \in DOMAIN ps[1]
    /\ ~ps[1]["show_profile"]

\* the view of row for a viewer holding role
PrivacyFilterAs(id, row, req, role) ==
    IF IsOwnerOrAdminAs(req, role, id) THEN ModelValidate(id, row)
    ELSE IF HidesProfile(row.privacy_settings) THEN ProfileOutCtor(FilteredFields(id))
    ELSE ModelValidate(id, row)

_apply_privacy_filter(id, row, req) ==
    IF IsOwnerOrAdmin(req, id) THEN ModelValidate(id, row)
    ELSE IF HidesProfile(row.privacy_settings) THEN ProfileOutCtor(FilteredFields(id))
    ELSE ModelValidate(id, row)

ProfileUnchanged ==
    UNCHANGED <<users, now, tokens, budget, streak, failAt, concVars, rateVars>>

GetProfile(req, target) ==
    LET r == IF get_profile_by_user_id(target) = {}
             THEN [kind |-> "NotFound", out |-> None]
             ELSE _apply_privacy_filter(target, profiles[target], req)
    IN  /\ last' = [op |-> "get_profile", req |-> req, reqRole |-> RoleOf(req),
                    target |-> target, kind |-> r.kind, out |-> r.out,
                    stored |-> IF target \in DOMAIN profiles
                               THEN profiles[target] ELSE None]
        /\ UNCHANGED profiles
        /\ ProfileUnchanged

ProfileWriteDenied_never(req, target) == FALSE

\* the permission test shared by the writing operations, for a requester
\* holding role
ProfileWriteDeniedAs(req, role, target) ==
    req # Anonymous /\ req # target /\ ~IsAdmin(role)

ProfileWriteDenied(req, target) == ProfileWriteDeniedAs(req, RoleOf(req), target)

AllowedSettings ==
    {"show_profile", "show_email", "show_phone", "show_location", "show_birthday"}

\* the column's onupdate stamps last_updated_at
Touched(row) == [row EXCEPT !.last_updated_at = DbDateTime(Aware(now))]

_validate_privacy_settings_skipped(settings, nonbool) == TRUE

\* lines 254-258: every key is an allowed one and every value a bool;
\* nonbool is the set of keys whose submitted value is no bool
_validate_privacy_settings(settings, nonbool) ==
    \A key \in DOMAIN settings : key \in AllowedSettings /\ key \notin nonbool

update_profile_privacy_merging(row, settings) ==
    [row EXCEPT !.privacy_settings =
        IF @ = None THEN Some(settings)
        ELSE Some([key \in DOMAIN @[1] \cup DOMAIN settings |->
                     IF key \in DOMAIN settings THEN settings[key] ELSE @[1][key]])]

\* profile_crud.update_profile_privacy: the row with
\* db_profile.privacy_settings = privacy_settings
update_profile_privacy(row, settings) ==
    [row EXCEPT !.privacy_settings = Some(settings)]

UpdateProfilePrivacy(req, target, settings, nonbool) ==
    LET k == IF ProfileWriteDenied(req, target) THEN "PermissionDenied"
             ELSE IF get_profile_by_user_id(target) = {} THEN "NotFound"
             ELSE IF ~_validate_privacy_settings(settings, nonbool)
             THEN "ValidationFailed"
             ELSE "ok"
    IN  /\ profiles' = IF k = "ok"
                       THEN [profiles EXCEPT ![target] =
                               Touched(update_profile_privacy(@, settings))]
                       ELSE profiles
        /\ last' = [op |-> "update_profile_privacy", req |-> req,
                    reqRole |-> RoleOf(req), target |-> target,
                    settings |-> settings, nonbool |-> nonbool, kind |-> k,
                    pre |-> IF target \in DOMAIN profiles
                            THEN profiles[target] ELSE None]
        /\ ProfileUnchanged

\* ProfileUpdate requires every field but last_updated_at, so an update
\* writes all of them; upd is a function on those fields
UpdateProfile(req, target, upd) ==
    LET k == IF ProfileWriteDenied(req, target) THEN "PermissionDenied"
             ELSE IF get_profile_by_user_id(target) = {} THEN "NotFound"
             ELSE "ok"
    IN  /\ profiles' = IF k = "ok"
                       THEN [profiles EXCEPT ![target] =
                               Touched([f \in ProfileFields |->
                                          IF f \in DOMAIN upd THEN upd[f] ELSE @[f]])]
                       ELSE profiles
        /\ last' = [op |-> "update_profile", req |-> req, reqRole |-> RoleOf(req),
                    target |-> target, upd |-> upd, kind |-> k]
        /\ ProfileUnchanged

PiiFields ==
    {"full_name", "date_of_birth", "gender", "location", "timezone", "crisis_contact"}

DeleteProfile(req, target, hard) ==
    LET k == IF ProfileWriteDenied(req, target) THEN "PermissionDenied"
             ELSE IF get_profile_by_user_id(target) = {} THEN "NotFound"
             ELSE "ok"
    IN  /\ profiles' =
              IF k # "ok" THEN profiles
              ELSE IF hard THEN [u \in DOMAIN profiles \ {target} |-> profiles[u]]
              ELSE [profiles EXCEPT ![target] =
                      Touched([f \in ProfileFields |->
                                 IF f \in PiiFields THEN None
                                 ELSE IF f = "privacy_settings"
                                 THEN Some([show_profile |-> FALSE])
                                 ELSE @[f]])]
        /\ last' = [op |-> "delete_profile", req |-> req, reqRole |-> RoleOf(req),
                    target |-> target, hard |-> hard, kind |-> k]
        /\ ProfileUnchanged

\* the row profile_crud.create_profile inserts for a ProfileCreate body:
\* the fields the body sets, None for the others, the column default for
\* last_updated_at
CreatedProfileRow(body, t) ==
    [f \in ProfileFields |->
        IF f = "last_updated_at" THEN DbDateTime(Aware(t))
        ELSE IF f \in DOMAIN body THEN body[f] ELSE None]

\* the outcome of ProfileService.create_profile; the insert of a second row
\* with the key of an existing one breaks the primary key
CreateProfileKind(req, target) ==
    IF ProfileWriteDenied(req, target) THEN "PermissionDenied"
    ELSE IF get_user_by_id(target) = {} THEN "NotFound"
    ELSE IF get_profile_by_user_id(target) # {}
    THEN "Conflict"
    ELSE "ok"

CreateProfile(req, target, body) ==
    LET k == CreateProfileKind(req, target) IN
    /\ profiles' = IF k = "ok"
                   THEN [u \in DOMAIN profiles \cup {target} |->
                           IF u = target THEN CreatedProfileRow(body, now)
                           ELSE profiles[u]]
                   ELSE profiles
    /\ last' = [op |-> "create_profile", req |-> req, reqRole |-> RoleOf(req),
                target |-> target, body |-> body, kind |-> k]
    /\ ProfileUnchanged

----------------------------------------------------------------------------
(* Login and lockout, one request at a time *)

NoCall == [op |-> "none", kind |-> "none"]

\* RateLimiter.__init__: self.requests = {}
NoTraffic ==
    /\ requests = [k \in {} |-> 0]
    /\ calls = <<>>

Idle ==
    /\ NoTraffic
    /\ pc = [p \in {} |-> "idle"]
    /\ sess = [p \in {} |-> None]
    /\ reqNow = [p \in {} |-> 0]
    /\ reqOut = [p \in {} |-> "none"]

\* the store after an administrator was seeded and a@x.com registered
Init ==
    /\ users = [u \in {"u1", "u2"} |->
                  IF u = "u1"
                  THEN NewUserRow("admin@x.com", hash_password("Xyz98765?"), "admin")
                  ELSE NewUserRow("a@x.com", hash_password("Abc12345!"), "user")]
    /\ profiles = [u \in {"u1", "u2"} |-> NewProfileRow(Day)]
    /\ now = Day
    /\ tokens = {}
    /\ last = NoCall
    /\ budget = [ops |-> 0, jumps |-> 0]
    /\ streak = [u \in Ids |-> 0]
    /\ failAt = [u \in Ids |-> 0]
    /\ Idle

LoginEmails == {"a@x.com", "nobody@x.com"}
LoginPasswords == {"Abc12345!", WrongPassword}
LockoutSteps == {LOCKOUT_MINUTES * Minute}

Next ==
    \/ budget.ops < MaxOps /\ \E e \in LoginEmails, p \in LoginPasswords :
          Login(e, p, FALSE)
    \/ budget.jumps < MaxJumps /\ \E d \in LockoutSteps : Tick(d)
    \/ \E s \in {"active", "suspended"} : UpdateUserStatus("u1", "u2", s)
    \/ \E s \in {"banned"} :
          UpdateUser("u1", "u2", [role |-> Unset, status |-> s])
    \/ DeleteUser("u2", "u2", FALSE)

Spec == Init /\ [][Next]_vars

----------------------------------------------------------------------------
(* Login when a write to the store can fail.  A crud function whose commit *)
(* raises SQLAlchemyError rolls its session back and raises DatabaseError; *)
(* login catches it, logs it and carries on.  fail names the write of the  *)
(* call that fails, "none" when every write goes through.                  *)

StoreFailures == {"increment", "lockout", "reset", "last_login"}

\* lines 64-70: the row after a failed verification
FailedAttemptRowFailing(row, t, fail) ==
    LET inc == [row EXCEPT !.failed_login_attempts = @ + 1] IN
    IF fail = "increment" THEN row
    ELSE IF LockoutReached(inc.failed_login_attempts) /\ fail # "lockout"
    THEN [inc EXCEPT !.lockout_until =
              DbDateTime(DtPlus(Aware(t), LOCKOUT_MINUTES * Minute))]
    ELSE inc

\* lines 74-78: the row after a successful verification
SuccessRowFailing(row, t, fail) ==
    IF fail = "reset" THEN row
    ELSE IF fail = "last_login" THEN [row EXCEPT !.failed_login_attempts = 0]
    ELSE SuccessRow(row, t)

LoginOnRowFailing(u, row, password, t, fail) ==
    LET r == LoginOnRow(u, row, password, t) IN
    IF r.kind = "TypeError" \/ r.msg = "Account is locked. Try again later." THEN r
    ELSE IF r.kind = "ok"
    THEN [r EXCEPT !.row = SuccessRowFailing(row, t, fail)]
    ELSE [r EXCEPT !.row = FailedAttemptRowFailing(row, t, fail)]

LoginStore(email, password, fail) ==
    /\ Spend
    /\ now' = now + 1
    /\ IF get_user_by_email(email) = {}
       THEN /\ last' = [op |-> "login", email |-> email, password |-> password,
                        found |-> FALSE, at |-> now, fail |-> fail,
                        kind |-> "Unauthorized", msg |-> "Invalid email or password",
                        issued |-> {}]
            /\ UNCHANGED <<users, tokens, streak, failAt>>
       ELSE LET u == CHOOSE x \in get_user_by_email(email) : TRUE
                r == LoginOnRowFailing(u, users[u], password, now, fail)
                bad == ~verify_password(password, users[u].password_hash)
            IN  /\ users' = [users EXCEPT ![u] = r.row]
                /\ tokens' = tokens \cup r.issued
                /\ last' = [op |-> "login", email |-> email, password |-> password,
                            found |-> TRUE, user |-> u, pre |-> users[u], at |-> now,
                            fail |-> fail,
                            kind |-> r.kind, msg |-> r.msg, issued |-> r.issued]
                /\ streak' = [streak EXCEPT ![u] =
                                 IF bad THEN @ + 1 ELSE IF r.kind = "ok" THEN 0 ELSE @]
                /\ failAt' = [failAt EXCEPT ![u] = IF bad THEN now ELSE @]
    /\ UNCHANGED <<concVars, profiles, rateVars>>

NextStore ==
    \/ budget.ops < MaxStoreOps /\
          \E e \in LoginEmails, p \in LoginPasswords, f \in StoreFailures \cup {"none"} :
             LoginStore(e, p, f)
    \/ budget.jumps < MaxJumps /\ \E d \in LockoutSteps : Tick(d)

SpecStore == Init /\ [][NextStore]_vars

----------------------------------------------------------------------------
(* Tokens and password change, one request at a time *)

TokenSteps == {ACCESS_TOKEN_EXPIRE_MINUTES * Minute, REFRESH_TOKEN_DAYS * Day}

\* refresh tokens a client can present that login never handed out: signed
\* with another key, or signed with the refresh secret but without a kind,
\* without a subject, with a subject that is no UUID, without an issued-at
PresentedTokens(t) ==
    LET base == create_refresh_token("u2", "a@x.com", t) IN
    {[base EXCEPT !.key = "Otherkey"], [base EXCEPT !.type = "none"],
     [base EXCEPT !.sub = NoSub], [base EXCEPT !.sub = "not-a-uuid"],
     [base EXCEPT !.iat = 0]}

NextToken ==
    \/ budget.ops < MaxTokenOps /\ \E p \in Passwords : Login("a@x.com", p, TRUE)
    \/ budget.ops < MaxTokenOps /\ ChangePassword("u2", "Xyz98765?")
    \/ budget.ops < MaxTokenOps /\ \E tok \in tokens, old \in Passwords :
          ChangePasswordRoute(tok, old, "Xyz98765?")
    \/ budget.ops < MaxTokenOps /\ \E tok \in tokens \cup PresentedTokens(now) :
          RefreshToken(tok)
    \/ budget.ops < MaxTokenOps /\ \E tok \in tokens : VerifyToken(tok)
    \/ budget.jumps < MaxTokenJumps /\ \E d \in TokenSteps : Tick(d)
    \/ DeleteUser("u1", "u2", TRUE)

SpecToken == Init /\ [][NextToken]_vars

----------------------------------------------------------------------------
(* Tokens and status changes, one request at a time *)

NextStatus ==
    \/ budget.ops < MaxStatusOps /\ Login("a@x.com", "Abc12345!", TRUE)
    \/ budget.ops < MaxStatusOps /\ \E tok \in tokens : RefreshToken(tok)
    \/ budget.ops < MaxStatusOps /\ \E tok \in tokens : VerifyToken(tok)
    \/ \E st \in {"active", "suspended", "deactivated"} :
          UpdateUserStatus("u1", "u2", st)
    \/ DeleteUser("u2", "u2", FALSE)

SpecStatus == Init /\ [][NextStatus]_vars

----------------------------------------------------------------------------
(* Account management, one request at a time *)

Requesters == DOMAIN users \cup {Anonymous}
StatusInputs == Status \cup {"deleted", "paused"}

NextUsers ==
    \/ \E req \in Requesters, target \in Ids,
          r \in Roles \cup {Unset}, st \in Status \cup {Unset} :
          UpdateUser(req, target, [role |-> r, status |-> st])
    \/ \E req \in Requesters, target \in Ids, st \in StatusInputs :
          UpdateUserStatus(req, target, st)
    \/ \E req \in Requesters, target \in Ids, hard \in BOOLEAN :
          DeleteUser(req, target, hard)
    \/ \E req \in Requesters, target \in Ids : GetUserById(req, target)

SpecUsers == Init /\ [][NextUsers]_vars

----------------------------------------------------------------------------
(* Profiles, one request at a time *)

\* the store after an administrator, a standard user and a clinician registered
InitProfile ==
    /\ users = [u \in Ids |->
                  IF u = "u1"
                  THEN NewUserRow("admin@x.com", hash_password("Xyz98765?"), "admin")
                  ELSE IF u = "u2"
                  THEN NewUserRow("a@x.com", hash_password("Abc12345!"), "user")
                  ELSE NewUserRow("c@x.com", hash_password("Abc12345!"), "clinician")]
    /\ profiles = [u \in Ids |-> NewProfileRow(Day)]
    /\ now = Day
    /\ tokens = {}
    /\ last = NoCall
    /\ budget = [ops |-> 0, jumps |-> 0]
    /\ streak = [u \in Ids |-> 0]
    /\ failAt = [u \in Ids |-> 0]
    /\ Idle

\* a ProfileUpdate body with every field filled in
FilledProfile(settings) ==
    [f \in ProfileFields \ {"last_updated_at"} |->
        IF f = "privacy_settings" THEN settings ELSE Some(f)]

ProfileInputs ==
    {FilledProfile(None), FilledProfile(Some([show_profile |-> FALSE])),
     FilledProfile(Some([show_profile |-> TRUE, show_salary |-> TRUE]))}

\* ProfileCreate bodies: nothing set, and a name with a privacy mapping
CreateInputs ==
    {[f \in {} |-> None],
     [f \in {"full_name", "privacy_settings"} |->
        IF f = "full_name" THEN Some(f) ELSE Some([show_profile |-> TRUE])]}

PrivacyInputs ==
    {[show_profile |-> FALSE], [show_profile |-> TRUE], [show_email |-> FALSE],
     [show_profile |-> FALSE, show_salary |-> TRUE]}

\* the keys of a submitted mapping whose value is a string, not a bool
NonBoolInputs == {{}, {"show_profile"}}

ProfileTargets == {"u2", "u3"}

NextProfile ==
    \/ \E req \in Requesters, target \in ProfileTargets : GetProfile(req, target)
    \/ \E req \in Requesters, target \in ProfileTargets, upd \in ProfileInputs :
          UpdateProfile(req, target, upd)
    \/ \E req \in Requesters, target \in ProfileTargets, ps \in PrivacyInputs,
          nonbool \in NonBoolInputs :
          nonbool \subseteq DOMAIN ps /\ UpdateProfilePrivacy(req, target, ps, nonbool)
    \/ \E req \in Requesters, target \in ProfileTargets, hard \in BOOLEAN :
          DeleteProfile(req, target, hard)
    \/ \E req \in Requesters, target \in ProfileTargets, body \in CreateInputs :
          CreateProfile(req, target, body)

SpecProfile == InitProfile /\ [][NextProfile]_vars

----------------------------------------------------------------------------
(* Accounts and profiles together: every operation that takes a requester, *)
(* called by the administrator, the standard user, the clinician or no     *)
(* requester, on the standard user's and the clinician's account.          *)

AccessUpdates == {[role |-> Unset, status |-> "suspended"]}
AccessStatus == {"deactivated"}
AccessProfiles == {FilledProfile(Some([show_profile |-> FALSE]))}
AccessPrivacy == {[show_email |-> FALSE]}
AccessCreates == {[f \in {"full_name"} |-> Some(f)]}

NextAccess ==
    \/ \E req \in Requesters, target \in ProfileTargets, upd \in AccessUpdates :
          UpdateUser(req, target, upd)
    \/ \E req \in Requesters, target \in ProfileTargets, st \in AccessStatus :
          UpdateUserStatus(req, target, st)
    \/ \E req \in Requesters, target \in ProfileTargets, hard \in BOOLEAN :
          DeleteUser(req, target, hard)
    \/ \E req \in Requesters, target \in ProfileTargets : GetProfile(req, target)
    \/ \E req \in Requesters, target \in ProfileTargets, upd \in AccessProfiles :
          UpdateProfile(req, target, upd)
    \/ \E req \in Requesters, target \in ProfileTargets, ps \in AccessPrivacy :
          UpdateProfilePrivacy(req, target, ps, {})
    \/ \E req \in Requesters, target \in ProfileTargets, hard \in BOOLEAN :
          DeleteProfile(req, target, hard)
    \/ \E req \in Requesters, target \in ProfileTargets, body \in AccessCreates :
          CreateProfile(req, target, body)

SpecAccess == InitProfile /\ [][NextAccess]_vars

----------------------------------------------------------------------------
(* Concurrent login requests for a@x.com.  Every request has its own ORM   *)
(* session: sess[p] is the User object the session loaded, a copy of the   *)
(* row as of the last SELECT or refresh.  A commit writes the attributes   *)
(* the request has changed on its object, and nothing locks the row        *)
(* between the SELECT and the UPDATE.  One step is one statement sent to   *)
(* the store, with the local computation that follows it.                  *)

Requests == 1..NumRequests
Target == "u2"

Finish(p, kind, msg) ==
    /\ pc' = [pc EXCEPT ![p] = "done"]
    /\ reqOut' = [reqOut EXCEPT ![p].kind = kind, ![p].msg = msg]

\* line 53: get_user_by_email
LQuery(p, password) ==
    /\ pc[p] = "start"
    /\ sess' = [sess EXCEPT ![p] = users[Target]]
    /\ pc' = [pc EXCEPT ![p] = "check"]
    /\ reqOut' = [reqOut EXCEPT ![p].password = password]
    /\ UNCHANGED <<reqNow>>
    /\ UNCHANGED seqVars

\* lines 58-63: read the clock, test the lockout, verify the password
LCheck(p) ==
    /\ pc[p] = "check"
    /\ reqNow' = [reqNow EXCEPT ![p] = now]
    /\ LET lc == LockoutCheck(sess[p], now) IN
       IF lc = "TypeError" THEN Finish(p, "TypeError", "naive vs aware")
       ELSE IF lc = "locked"
       THEN Finish(p, "Unauthorized", "Account is locked. Try again later.")
       ELSE /\ pc' = [pc EXCEPT ![p] =
                        IF verify_password(reqOut[p].password, sess[p].password_hash)
                        THEN "reset" ELSE "increment"]
            /\ UNCHANGED reqOut
    /\ UNCHANGED <<sess>>
    /\ UNCHANGED seqVars

\* line 65: increment_failed_attempts, a read-modify-write of the object
LIncrement(p) ==
    /\ pc[p] = "increment"
    /\ users' = [users EXCEPT ![Target].failed_login_attempts =
                     sess[p].failed_login_attempts + 1]
    /\ sess' = [sess EXCEPT ![p] = users'[Target]]
    /\ pc' = [pc EXCEPT ![p] = "threshold"]
    /\ UNCHANGED <<reqNow, reqOut>>
    /\ UNCHANGED <<now, tokens, last, budget, streak, failAt, profiles, rateVars>>

\* lines 66-71: set_lockout_until at the threshold, then the error
LLock(p) ==
    /\ pc[p] = "threshold"
    /\ users' = IF LockoutReached(sess[p].failed_login_attempts)
                THEN [users EXCEPT ![Target].lockout_until =
                         DbDateTime(DtPlus(Aware(reqNow[p]), LOCKOUT_MINUTES * Minute))]
                ELSE users
    /\ sess' = [sess EXCEPT ![p] = users'[Target]]
    /\ Finish(p, "Unauthorized", "Invalid email or password")
    /\ UNCHANGED <<reqNow>>
    /\ UNCHANGED <<now, tokens, last, budget, streak, failAt, profiles, rateVars>>

\* line 75: reset_failed_attempts; an attribute set to the value the object
\* already holds is not written
LReset(p) ==
    /\ pc[p] = "reset"
    /\ users' = IF sess[p].failed_login_attempts # 0
                THEN [users EXCEPT ![Target].failed_login_attempts = 0]
                ELSE users
    /\ sess' = [sess EXCEPT ![p] = users'[Target]]
    /\ pc' = [pc EXCEPT ![p] = "lastlogin"]
    /\ UNCHANGED <<reqNow, reqOut>>
    /\ UNCHANGED <<now, tokens, last, budget, streak, failAt, profiles, rateVars>>

\* lines 76-94: update_last_login, then the tokens
LLastLogin(p) ==
    /\ pc[p] = "lastlogin"
    /\ users' = [users EXCEPT ![Target].last_login_at = DbDateTime(Aware(now))]
    /\ sess' = [sess EXCEPT ![p] = users'[Target]]
    /\ Finish(p, "ok", "bearer")
    /\ UNCHANGED <<reqNow>>
    /\ UNCHANGED <<now, tokens, last, budget, streak, failAt, profiles, rateVars>>

\* the account after 0 to 4 failed logins in a row, and the requests arriving
InitConc ==
    /\ \E n \in 0..(LOCKOUT_THRESHOLD - 1) :
          /\ users = [u \in {Target} |->
                [NewUserRow("a@x.com", hash_password("Abc12345!"), "user")
                    EXCEPT !.failed_login_attempts = n]]
          /\ streak = [u \in Ids |-> IF u = Target THEN n ELSE 0]
    /\ profiles = [u \in {Target} |-> NewProfileRow(Day)]
    /\ now = Day
    /\ tokens = {}
    /\ last = NoCall
    /\ budget = [ops |-> 0, jumps |-> 0]
    /\ failAt = [u \in Ids |-> 0]
    /\ NoTraffic
    /\ pc = [p \in Requests |-> "start"]
    /\ sess = [p \in Requests |-> None]
    /\ reqNow = [p \in Requests |-> 0]
    /\ reqOut = [p \in Requests |-> [password |-> "", kind |-> "pending", msg |-> ""]]

\* a request that has ended is followed by the client's next one
LAgain(p) ==
    /\ pc[p] = "done"
    /\ budget.ops < MaxRetries
    /\ Spend
    /\ pc' = [pc EXCEPT ![p] = "start"]
    /\ reqOut' = [reqOut EXCEPT ![p] = [password |-> "", kind |-> "pending", msg |-> ""]]
    /\ last' = [op |-> "login", kind |-> reqOut[p].kind, msg |-> reqOut[p].msg]
    /\ UNCHANGED <<users, now, tokens, streak, failAt, sess, reqNow, profiles, rateVars>>

NextConc ==
    \/ \E p \in Requests, pw \in LoginPasswords : LQuery(p, pw)
    \/ \E p \in Requests : LCheck(p)
    \/ \E p \in Requests : LIncrement(p)
    \/ \E p \in Requests : LLock(p)
    \/ \E p \in Requests : LReset(p)
    \/ \E p \in Requests : LLastLogin(p)
    \/ \E p \in Requests : LAgain(p)

SpecConc == InitConc /\ [][NextConc]_vars

----------------------------------------------------------------------------
(* Registration.  UserService.create_user sends four statements to the     *)
(* store, each in a transaction of its own: the email query, the phone     *)
(* query, the insert of the account, the insert of the profile.  Requests  *)
(* of different clients interleave between the statements.  fail says that *)
(* the commit raises SQLAlchemyError (the store is unreachable).           *)

RegRequests == {1, 2}

\* uuid4 gives every inserted account an id no other account has
RegId == [p \in RegRequests |-> IF p = 1 THEN "u2" ELSE "u3"]

\* the addresses clients submit: differing in the case of the local part,
\* of the domain, or not at all
RawEmails == {"a@x.com", "A@x.com", "a@X.com"}

\* EmailStr validation: the domain is lower-cased, the local part is kept
EmailStr(raw) == IF raw = "a@X.com" THEN "a@x.com" ELSE raw

Phones == {None, <<"5550001111">>}

\* the row user_crud.create_user inserts; UserCreate has no role field, so
\* getattr(user_in, "role", UserRole.user) is always user
RegisteredRow(email, password, phone_number) ==
    [NewUserRow(email, hash_password(password), "user")
        EXCEPT !.phone_number = phone_number]

\* the unique indexes on users.email and users.phone_number
UniqueViolation(email, phone_number) ==
    \E u \in DOMAIN users :
        \/ users[u].email = email
        \/ phone_number # None /\ users[u].phone_number = phone_number

RegUnchanged == UNCHANGED <<now, tokens, budget, streak, failAt, sess, reqNow, rateVars>>

RFinish(p, kind) ==
    /\ pc' = [pc EXCEPT ![p] = "done"]
    /\ reqOut' = [reqOut EXCEPT ![p].kind = kind]
    /\ last' = [op |-> "create_user", request |-> p, id |-> RegId[p],
                email |-> reqOut[p].email, phone_number |-> reqOut[p].phone_number,
                kind |-> kind, pre |-> DOMAIN users]

\* the request body is parsed into UserCreate; line 53: the email query
REmail(p, raw, phone_number) ==
    /\ pc[p] = "start"
    /\ IF get_user_by_email(EmailStr(raw)) # {}
       THEN /\ pc' = [pc EXCEPT ![p] = "done"]
            /\ reqOut' = [reqOut EXCEPT ![p] =
                  [email |-> EmailStr(raw), phone_number |-> phone_number,
                   kind |-> "Conflict"]]
            /\ last' = [op |-> "create_user", request |-> p, id |-> RegId[p],
                        email |-> EmailStr(raw), phone_number |-> phone_number,
                        kind |-> "Conflict", pre |-> DOMAIN users]
       ELSE /\ pc' = [pc EXCEPT ![p] = "phone"]
            /\ reqOut' = [reqOut EXCEPT ![p] =
                  [email |-> EmailStr(raw), phone_number |-> phone_number,
                   kind |-> "pending"]]
            /\ UNCHANGED last
    /\ UNCHANGED <<users, profiles>>
    /\ RegUnchanged

\* line 57: the phone query, made when a phone number was given
RPhone(p) ==
    /\ pc[p] = "phone"
    /\ IF reqOut[p].phone_number # None
          /\ get_user_by_phone(reqOut[p].phone_number) # {}
       THEN RFinish(p, "Conflict")
       ELSE /\ pc' = [pc EXCEPT ![p] = "insert_user"]
            /\ UNCHANGED <<reqOut, last>>
    /\ UNCHANGED <<users, profiles>>
    /\ RegUnchanged

\* lines 65-72: user_crud.create_user adds the row and commits
RInsertUser(p, fail) ==
    /\ pc[p] = "insert_user"
    /\ IF fail
       THEN RFinish(p, "ServiceError") /\ UNCHANGED users
       ELSE IF UniqueViolation(reqOut[p].email, reqOut[p].phone_number)
       THEN RFinish(p, "Conflict") /\ UNCHANGED users
       ELSE /\ users' = [u \in DOMAIN users \cup {RegId[p]} |->
                           IF u = RegId[p]
                           THEN RegisteredRow(reqOut[p].email, "Abc12345!",
                                              reqOut[p].phone_number)
                           ELSE users[u]]
            /\ pc' = [pc EXCEPT ![p] = "insert_profile"]
            /\ UNCHANGED <<reqOut, last>>
    /\ UNCHANGED profiles
    /\ RegUnchanged

\* lines 75-98: profile_crud.create_profile adds the empty profile and
\* commits; a DatabaseError becomes ServiceError and the account stays
RInsertProfile(p, fail) ==
    /\ pc[p] = "insert_profile"
    /\ IF fail
       THEN RFinish(p, "ServiceError") /\ UNCHANGED profiles
       ELSE /\ profiles' = [u \in DOMAIN profiles \cup {RegId[p]} |->
                              IF u = RegId[p] THEN NewProfileRow(now)
                              ELSE profiles[u]]
            /\ RFinish(p, "ok")
    /\ UNCHANGED users
    /\ RegUnchanged

\* the store after the administrator was seeded, and the requests arriving
InitReg ==
    /\ users = [u \in {"u1"} |->
                  NewUserRow("admin@x.com", hash_password("Xyz98765?"), "admin")]
    /\ profiles = [u \in {"u1"} |-> NewProfileRow(Day)]
    /\ now = Day
    /\ tokens = {}
    /\ last = NoCall
    /\ budget = [ops |-> 0, jumps |-> 0]
    /\ streak = [u \in Ids |-> 0]
    /\ failAt = [u \in Ids |-> 0]
    /\ NoTraffic
    /\ pc = [p \in RegRequests |-> "start"]
    /\ sess = [p \in RegRequests |-> None]
    /\ reqNow = [p \in RegRequests |-> 0]
    /\ reqOut = [p \in RegRequests |->
                   [email |-> "", phone_number |-> None, kind |-> "pending"]]

NextReg ==
    \/ \E p \in RegRequests, raw \in RawEmails, phone_number \in Phones :
          REmail(p, raw, phone_number)
    \/ \E p \in RegRequests : RPhone(p)
    \/ \E p \in RegRequests, fail \in BOOLEAN : RInsertUser(p, fail)
    \/ \E p \in RegRequests, fail \in BOOLEAN : RInsertProfile(p, fail)

SpecReg == InitReg /\ [][NextReg]_vars

----------------------------------------------------------------------------
(* RateLimiter.  One limiter, built with max_requests = RateMaxRequests and *)
(* window_seconds = RateWindow ticks, serves the calls of two clients.  A   *)
(* call reads the clock once and takes no time of its own; the clock moves  *)
(* forward between calls.                                                  *)

Keys == {"k1", "k2"}

\* the entries that stay after "Clean old entries" at clock reading t
CleanOld(reqs, t) ==
    [k \in {x \in DOMAIN reqs : t - reqs[x].first_request < RateWindow} |-> reqs[k]]

is_allowed_above_limit(reqs, key, t) ==
    LET c == CleanOld(reqs, t) IN
    IF key \notin DOMAIN c
    THEN [allowed |-> TRUE,
          requests |-> [k \in DOMAIN c \cup {key} |->
                          IF k = key THEN [count |-> 1, first_request |-> t]
                          ELSE c[k]]]
    ELSE IF c[key].count > RateMaxRequests
    THEN [allowed |-> FALSE, requests |-> c]
    ELSE [allowed |-> TRUE, requests |-> [c EXCEPT ![key].count = @ + 1]]

\* RateLimiter.is_allowed at clock reading t: the result and the new
\* self.requests
is_allowed(reqs, key, t) ==
    LET c == CleanOld(reqs, t) IN
    IF key \notin DOMAIN c
    THEN [allowed |-> TRUE,
          requests |-> [k \in DOMAIN c \cup {key} |->
                          IF k = key THEN [count |-> 1, first_request |-> t]
                          ELSE c[k]]]
    ELSE IF c[key].count >= RateMaxRequests
    THEN [allowed |-> FALSE, requests |-> c]
    ELSE [allowed |-> TRUE, requests |-> [c EXCEPT ![key].count = @ + 1]]

IsAllowed(key) ==
    LET r == is_allowed(requests, key, now) IN
    /\ Len(calls) < MaxRateCalls
    /\ requests' = r.requests
    /\ calls' = Append(calls, [key |-> key, at |-> now, allowed |-> r.allowed])
    /\ last' = [op |-> "is_allowed", key |-> key, at |-> now,
                allowed |-> r.allowed, pre |-> requests]
    /\ UNCHANGED <<users, now, tokens, budget, streak, failAt, concVars, profiles>>

NextRate ==
    \/ \E key \in Keys : IsAllowed(key)
    \/ budget.jumps < MaxRateTime /\ Tick(1)

SpecRate == Init /\ [][NextRate]_vars

----------------------------------------------------------------------------
(* Properties of login and lockout (checked under Spec) *)

\* C1: from count 0 and no lockout, the 5th wrong-password login call in a
\* row stores lockout_until = time of that attempt + 15 minutes, and fewer
\* than 5 in a row leave lockout_until empty.
C1_FiveFailuresLock ==
    \A u \in DOMAIN users :
        /\ streak[u] < 5 => users[u].lockout_until = None
        /\ streak[u] = 5 =>
              /\ users[u].lockout_until # None
              /\ users[u].lockout_until[1] = failAt[u] + 15 * Minute

C1_Witness ==
    /\ last.op = "login" /\ last.found
    /\ streak[last.user] = 5
    /\ last.pre.lockout_until = None
    /\ users[last.user].lockout_until # None

\* C2: a login against an account whose lockout_until is later than now is
\* rejected with the locked error whatever the password, and the account's
\* row is the same after the call as before.
C2_LockedLoginRejected ==
    (/\ last.op = "login" /\ last.found
     /\ last.pre.lockout_until # None
     /\ last.pre.lockout_until[1] > last.at)
    => /\ last.kind = "Unauthorized"
       /\ last.msg = "Account is locked. Try again later."
       /\ users[last.user] = last.pre

\* C3: once now has passed lockout_until, the next login with the correct
\* password succeeds, returns tokens and sets the failed-attempt count to 0.
C3_ExpiredLockoutLoginSucceeds ==
    (/\ last.op = "login" /\ last.found
     /\ last.pre.lockout_until # None
     /\ last.pre.lockout_until[1] < last.at
     /\ verify_password(last.password, last.pre.password_hash))
    => /\ last.kind = "ok"
       /\ last.issued # {}
       /\ users[last.user].failed_login_attempts = 0

\* C5: login hands out tokens only for an account whose status is active.
C5_OnlyActiveLogsIn ==
    (last.op = "login" /\ last.found /\ last.pre.status # "active")
    => (last.kind # "ok" /\ last.issued = {})

----------------------------------------------------------------------------
(* Properties of tokens after a password change (checked under SpecToken) *)

IssuedBeforeChange(tok) ==
    /\ tok.sub \in DOMAIN users
    /\ users[tok.sub].password_changed_at # None
    /\ tok.at < users[tok.sub].password_changed_at[1]

\* C6: after change_password, refresh with a refresh token of that account
\* issued before the change fails with Unauthorized and issues nothing.
C6_OldRefreshTokenRejected ==
    (/\ last.op = "refresh_token"
     /\ last.tok.type = "refresh"
     /\ IssuedBeforeChange(last.tok))
    => (last.kind = "Unauthorized" /\ last.issued = {})

\* an unexpired, correctly signed refresh token met the staleness check
C6_Witness ==
    /\ last.op = "refresh_token"
    /\ last.tok.type = "refresh"
    /\ IssuedBeforeChange(last.tok)
    /\ jwt_decode(last.tok, REFRESH_SECRET_KEY, last.at) = "ok"
    /\ last.kind = "Unauthorized"

\* C7: after change_password, an access token of that account issued before
\* the change is rejected by verify_token.
C7_OldAccessTokenRejected ==
    (/\ last.op = "verify_token"
     /\ last.tok.type = "none"
     /\ IssuedBeforeChange(last.tok))
    => last.kind = "Unauthorized"

----------------------------------------------------------------------------
(* Properties of account management (checked under SpecUsers) *)

\* C8: an account's role changes only in an operation requested by an admin.
C8_RoleChangedOnlyByAdmin ==
    [][\A u \in DOMAIN users :
          (u \in DOMAIN users' /\ users'[u].role # users[u].role)
          => last'.reqRole = "admin"]_vars

\* C9: apart from a self soft-delete (own status set to deactivated), no
\* operation requested by a non-admin account changes any account's status.
C9_StatusChangedOnlyByAdmin ==
    [][\A u \in DOMAIN users :
          (/\ u \in DOMAIN users'
           /\ users'[u].status # users[u].status
           /\ last'.req # Anonymous
           /\ last'.reqRole # "admin")
          => /\ last'.op = "delete_user"
             /\ last'.req = u
             /\ ~last'.hard
             /\ users'[u].status = "deactivated"]_vars

\* C10: update_status by an admin persists each of active, suspended,
\* deactivated, banned and returns a result; any other value fails with
\* ValidationFailed and leaves the stored status as it was.
C10_StatusEnumerationAccepted ==
    (/\ last.op = "update_user_status"
     /\ last.reqRole = "admin"
     /\ last.kind # "NotFound")
    => IF last.status \in {"active", "suspended", "deactivated", "banned"}
       THEN last.kind = "ok" /\ users[last.target].status = last.status
       ELSE last.kind = "ValidationFailed" /\ users[last.target].status = last.pre

----------------------------------------------------------------------------
(* Properties of concurrent logins (checked under SpecConc) *)

FailedVerifications == {p \in Requests : pc[p] = "done" /\ reqOut[p].msg = "Invalid email or password"}

\* C4: no increment of the failed-attempt counter is lost: when N concurrent
\* requests, all failed password verifications, have completed and the
\* counter started at c with c + N below the threshold, the stored counter
\* is c + N.
C4_NoLostIncrement ==
    (/\ budget.ops = 0
     /\ FailedVerifications = Requests
     /\ streak[Target] + NumRequests < 5)
    => users[Target].failed_login_attempts = streak[Target] + NumRequests

----------------------------------------------------------------------------
(* Properties of login errors (checked under Spec) *)

\* the account is not locked at time t: no lockout, or one that has passed
Unlocked(row, t) == row.lockout_until = None \/ row.lockout_until[1] <= t

\* C11: login with a wrong password on an unlocked account ends with the
\* same error kind and message as login with an email that has no account,
\* and a login for an unregistered email changes no stored state.
C11_LoginHidesRegistration ==
    [][(now' = now + 1 /\ last'.op = "login")
       => /\ ~last'.found
               => /\ last'.kind = "Unauthorized"
                  /\ last'.msg = "Invalid email or password"
                  /\ users' = users /\ profiles' = profiles
          /\ (/\ last'.found
              /\ Unlocked(users[last'.user], now)
              /\ ~verify_password(last'.password, users[last'.user].password_hash))
               => /\ last'.kind = "Unauthorized"
                  /\ last'.msg = "Invalid email or password"]_vars

----------------------------------------------------------------------------
(* Properties of token verification and renewal (checked under SpecToken) *)

\* C12: every failing call of refresh ends in the one Unauthorized outcome,
\* whatever the cause.
C12_RefreshFailsUnauthorized ==
    (last.op = "refresh_token" /\ last.kind # "ok") => last.kind = "Unauthorized"

IssuedAsAccess(tok) == tok = create_access_token(tok.sub, tok.email, tok.at)
IssuedAsRefresh(tok) == tok = create_refresh_token(tok.sub, tok.email, tok.at)

\* C13: refresh never accepts a token issued as an access token, and
\* access-token verification never accepts a token issued as a refresh token.
C13_TokenKindsNotInterchangeable ==
    /\ (last.op = "refresh_token" /\ IssuedAsAccess(last.tok))
          => (last.kind = "Unauthorized" /\ last.issued = {})
    /\ (last.op = "verify_token" /\ IssuedAsRefresh(last.tok))
          => last.kind = "Unauthorized"
    /\ (last.op = "change_password_route" /\ IssuedAsRefresh(last.tok))
          => last.kind = "HTTP401"

\* an unexpired refresh token of an existing account met verify_token
C13_Witness ==
    /\ last.op = "verify_token"
    /\ IssuedAsRefresh(last.tok)
    /\ jwt_decode(last.tok, REFRESH_SECRET_KEY, last.at) = "ok"
    /\ last.tok.sub \in DOMAIN users
    /\ last.kind = "Unauthorized"

\* issue time + TTL of an issued token, in ticks
ExpiryTime(tok) ==
    tok.at + (IF tok.type = "refresh" THEN REFRESH_TOKEN_DAYS * Day
              ELSE ACCESS_TOKEN_EXPIRE_MINUTES * Minute)

\* C14: a token presented after its expiry time (issue time + TTL) is
\* rejected with Unauthorized by verify_token and by refresh.
C14_ExpiredTokenRejected ==
    (/\ last.op \in {"verify_token", "refresh_token"}
     /\ (IssuedAsAccess(last.tok) \/ IssuedAsRefresh(last.tok))
     /\ last.at > ExpiryTime(last.tok))
    => last.kind = "Unauthorized"

\* C15: an access token issued by login and verified in the very next call
\* is accepted, and the claims returned carry the subject id and the email
\* login put into it.
C15_IssueThenVerify ==
    [][(/\ last.op = "login" /\ last.kind = "ok"
        /\ last'.op = "verify_token"
        /\ last'.at = last.at + 1
        /\ last'.tok \in last.issued
        /\ last'.tok.type = "none")
       => /\ last'.kind = "ok"
          /\ last'.claims.sub = last.user
          /\ last'.claims.email = last.email]_vars

C15_Witness ==
    /\ last.op = "verify_token"
    /\ IssuedAsAccess(last.tok)
    /\ last.at = last.tok.at + 1
    /\ last.kind = "ok"
    /\ last.claims.sub = last.tok.sub

\* C16: a self-service password change by a non-admin whose old password
\* does not match the stored hash leaves password hash and
\* password-changed-at as they were, and every issued token of the account
\* passes the staleness check exactly as before.
C16_WrongOldPasswordChangesNothing ==
    (/\ last.op = "change_password_route"
     /\ last.user # "none"
     /\ last.reqRole # "admin"
     /\ ~verify_password(last.old_password, last.pre.password_hash))
    => /\ last.kind = "incorrect"
       /\ users[last.user].password_hash = last.pre.password_hash
       /\ users[last.user].password_changed_at = last.pre.password_changed_at
       /\ \A tok \in tokens : tok.sub = last.user =>
             validate_token_issue_time(users[last.user], FromTimestamp(tok.iat))
             = validate_token_issue_time(last.pre, FromTimestamp(tok.iat))

C16_Witness ==
    /\ last.op = "change_password_route"
    /\ last.reqRole = "user"
    /\ ~verify_password(last.old_password, last.pre.password_hash)
    /\ last.kind = "incorrect"
    /\ \E tok \in tokens : tok.sub = last.user

\* C17: a step that changes an account's password hash sets
\* password-changed-at to the time of the change, and password-changed-at
\* never decreases and is never emptied once set.
C17_PasswordChangedAtFollowsHash ==
    [][\A u \in DOMAIN users \cap DOMAIN users' :
          /\ users'[u].password_hash # users[u].password_hash
                => /\ users'[u].password_changed_at # None
                   /\ users'[u].password_changed_at[1] = now
          /\ users[u].password_changed_at # None
                => /\ users'[u].password_changed_at # None
                   /\ users'[u].password_changed_at[1]
                         >= users[u].password_changed_at[1]]_vars

\* the password of an account that holds tokens was changed
C17_Witness ==
    /\ last.op \in {"change_password", "change_password_route"}
    /\ last.kind = "ok"
    /\ users[last.user].password_hash = hash_password("Xyz98765?")
    /\ users[last.user].password_changed_at = <<last.at, FALSE>>
    /\ \E tok \in tokens : tok.sub = last.user /\ tok.at < last.at

----------------------------------------------------------------------------
(* Properties of login bookkeeping (checked under SpecStore) *)

\* C18: whenever login returns tokens, the stored failed-attempt count is 0
\* and the stored last-login timestamp is the time of that login, also when
\* a write to the store fails during the bookkeeping.
C18_SuccessfulLoginBookkeeping ==
    (last.op = "login" /\ last.found /\ last.kind = "ok" /\ last.issued # {})
    => /\ users[last.user].failed_login_attempts = 0
       /\ users[last.user].last_login_at # None
       /\ users[last.user].last_login_at[1] = last.at

----------------------------------------------------------------------------
(* Properties of the profile privacy filter (checked under SpecProfile) *)

\* C19: for a viewer who is neither the owner nor an admin (an absent viewer
\* included), get_profile on a profile whose privacy flags hold
\* show_profile = false returns a result that keeps the identity key and a
\* privacy marker and has every personal and health field nulled.
C19_HiddenProfileIsMinimal ==
    (/\ last.op = "get_profile"
     /\ last.stored # None
     /\ ~(last.req = last.target \/ last.reqRole = "admin")
     /\ last.stored.privacy_settings # None
     /\ "show_profile" \in DOMAIN last.stored.privacy_settings[1]
     /\ ~last.stored.privacy_settings[1]["show_profile"])
    => /\ last.kind = "ok"
       /\ last.out["id"] = last.target
       /\ last.out["privacy_settings"] # None
       /\ \A f \in PiiFields \cup {"medications", "conditions", "primary_pillar_weights"} :
             last.out[f] = None

\* C20: when the viewer is the owner or an admin, get_profile returns every
\* stored field of the profile unchanged, whatever the privacy flags are.
C20_OwnerAndAdminSeeAll ==
    (/\ last.op = "get_profile"
     /\ last.stored # None
     /\ (last.req = last.target \/ last.reqRole = "admin"))
    => /\ last.kind = "ok"
       /\ last.out["id"] = last.target
       /\ \A f \in ProfileFields : last.out[f] = last.stored[f]

\* the owner read a filled-in profile that hides itself from others
C20_Witness ==
    /\ last.op = "get_profile"
    /\ last.req = last.target
    /\ last.reqRole # "admin"
    /\ last.stored # None
    /\ HidesProfile(last.stored.privacy_settings)
    /\ last.stored.full_name # None
    /\ last.kind = "ok"
    /\ last.out["full_name"] = last.stored.full_name

----------------------------------------------------------------------------
(* Properties of the stored privacy flags (checked under SpecProfile) *)

\* C21: every key of every stored profile's privacy-flag mapping belongs to
\* the fixed allowed set, whatever profile operations were run.
C21_StoredPrivacyKeysAllowed ==
    \A u \in DOMAIN profiles :
        profiles[u].privacy_settings # None
        => DOMAIN profiles[u].privacy_settings[1] \subseteq AllowedSettings

\* C22: update_profile_privacy is all-or-nothing: a permitted call on an
\* existing profile whose mapping holds a key outside the allowed set or a
\* value that is no boolean fails with ValidationFailed and leaves the stored
\* profile, its privacy-flag mapping included, exactly as it was.
C22_PrivacyUpdateAllOrNothing ==
    (/\ last.op = "update_profile_privacy"
     /\ last.kind \notin {"PermissionDenied", "NotFound"}
     /\ (~(DOMAIN last.settings \subseteq AllowedSettings) \/ last.nonbool # {}))
    => /\ last.kind = "ValidationFailed"
       /\ profiles[last.target] = last.pre

\* a request with a valid entry next to a bad one met a profile that stores flags
C22_Witness ==
    /\ last.op = "update_profile_privacy"
    /\ last.req = last.target
    /\ "show_profile" \in DOMAIN last.settings
    /\ "show_salary" \in DOMAIN last.settings
    /\ last.kind = "ValidationFailed"
    /\ last.pre.privacy_settings # None
    /\ profiles[last.target].privacy_settings = last.pre.privacy_settings

----------------------------------------------------------------------------
(* Properties of registration (checked under SpecReg) *)

RegDone == {p \in RegRequests : pc[p] = "done"}

\* the address compared without regard to case
Lower(email) == IF email \in {"A@x.com", "a@X.com"} THEN "a@x.com" ELSE email

\* C23: registration creates the account and its empty profile as one unit:
\* after a create_user call has ended, in success or in failure (a store
\* failure while creating the profile included), the account and the profile
\* with its id both exist or neither does.
C23_AccountAndProfileTogether ==
    \A p \in RegDone : RegId[p] \in DOMAIN users <=> RegId[p] \in DOMAIN profiles

\* C24: no two accounts have emails that are equal without regard to case,
\* no two accounts share a phone number, and a registration that ends in
\* Conflict has added no account.
C24_EmailAndPhoneUnique ==
    /\ \A u, v \in DOMAIN users :
          u # v => /\ Lower(users[u].email) # Lower(users[v].email)
                   /\ users[u].phone_number = None
                      \/ users[u].phone_number # users[v].phone_number
    /\ \A p \in RegDone : reqOut[p].kind = "Conflict" => RegId[p] \notin DOMAIN users

----------------------------------------------------------------------------
(* Properties of account deletion (checked under SpecUsers) *)

\* C25: an account's row is removed only on the request of an admin: no
\* delete_user call of a non-admin requester, a non-admin deleting their own
\* account with hard_delete = true included, removes an account row.
C25_HardDeleteOnlyByAdmin ==
    [][(DOMAIN users' # DOMAIN users) => last'.reqRole = "admin"]_vars

----------------------------------------------------------------------------
(* Properties of accounts and profiles together (checked under SpecAccess) *)

\* C26: profiles never outlive their account: each stored profile's id is
\* the id of an existing account, and a step that removes an account row
\* removes the profile of that account in the same step.
C26_ProfilesNeverOutliveAccount ==
    /\ [](DOMAIN profiles \subseteq DOMAIN users)
    /\ [][\A u \in DOMAIN users \ DOMAIN users' : u \notin DOMAIN profiles']_vars

\* an account that had a profile was hard-deleted
C26_Witness ==
    /\ last.op = "delete_user"
    /\ last.hard
    /\ last.kind = "ok"
    /\ last.hadProfile
    /\ last.target \notin DOMAIN users
    /\ last.target \notin DOMAIN profiles

WriteOps ==
    {"update_user", "delete_user", "update_profile", "update_profile_privacy",
     "delete_profile"}

\* C27: write authorization is self-or-admin: in every call of update_user,
\* delete_user, update_profile, update_profile_privacy or delete_profile on
\* an existing account by a requester account that is neither the target nor
\* an admin, the outcome is PermissionDenied and the stored accounts and
\* profiles are unchanged.
C27_WriteIsSelfOrAdmin ==
    [][(/\ last'.op \in WriteOps
        /\ last'.req # Anonymous
        /\ last'.req # last'.target
        /\ last'.reqRole # "admin"
        /\ last'.target \in DOMAIN users)
       => /\ last'.kind = "PermissionDenied"
          /\ users' = users
          /\ profiles' = profiles]_vars

\* the clinician was refused a write to the standard user's filled-in profile
C27_Witness ==
    /\ last.op = "update_profile_privacy"
    /\ last.reqRole = "clinician"
    /\ last.target = "u2"
    /\ last.kind = "PermissionDenied"
    /\ "u2" \in DOMAIN profiles
    /\ profiles["u2"].full_name # None
    /\ profiles["u2"] = last.pre

OtherRole(role) == IF role = "clinician" THEN "user" ELSE "clinician"

----------------------------------------------------------------------------
(* Properties of update_status (checked under SpecUsers) *)

\* C29: update_status is idempotent for deactivated: an admin's call of
\* update_status(id, "deactivated") on an existing account succeeds and
\* leaves the status deactivated, also when the account was deactivated
\* already by the call before.
C29_DeactivateIdempotent ==
    (/\ last.op = "update_user_status"
     /\ last.reqRole = "admin"
     /\ last.status = "deactivated"
     /\ last.kind # "NotFound")
    => /\ last.kind = "ok"
       /\ users[last.target].status = "deactivated"

\* the call met an account whose status was deactivated already
C29_Witness ==
    /\ last.op = "update_user_status"
    /\ last.reqRole = "admin"
    /\ last.status = "deactivated"
    /\ last.pre = "deactivated"
    /\ last.kind = "ok"
    /\ users[last.target].status = "deactivated"

----------------------------------------------------------------------------
(* Properties of refresh as a read-only call (checked under SpecToken) *)

\* C30: a successful refresh returns one new access token for the token's
\* subject and no refresh token, a failed one returns nothing, and either
\* way the call writes nothing: every account and profile is the same after
\* the call as before.
C30_RefreshWritesNothing ==
    [][(last'.op = "refresh_token" /\ last'.at = now)
       => /\ users' = users
          /\ profiles' = profiles
          /\ IF last'.kind = "ok"
             THEN last'.issued =
                     {create_access_token(last'.tok.sub,
                                          users[last'.tok.sub].email, now)}
             ELSE last'.issued = {}
          /\ \A tok \in last'.issued : tok.type # "refresh"]_vars

\* a refresh token of an account that has logged in was renewed
C30_Witness ==
    /\ last.op = "refresh_token"
    /\ last.kind = "ok"
    /\ last.issued # {}
    /\ \A tok \in last.issued : tok.sub = last.tok.sub /\ tok.at = last.at
    /\ users[last.tok.sub].last_login_at # None

----------------------------------------------------------------------------
(* Properties of status changes and tokens (checked under SpecStatus) *)

----------------------------------------------------------------------------
(* Properties of profile deletion and privacy (checked under SpecProfile) *)

SoftDeleted(row) ==
    /\ \A f \in PiiFields : row[f] = None
    /\ row.privacy_settings = Some([show_profile |-> FALSE])

\* delete_profile with hard_delete = False keeps the row, nulls the personal
\* fields and sets the privacy flags to exactly {show_profile: false}
SoftDeleteStored ==
    (last.op = "delete_profile" /\ ~last.hard /\ last.kind = "ok")
    => /\ last.target \in DOMAIN profiles
       /\ SoftDeleted(profiles[last.target])

\* C32: a soft delete of a profile keeps the row, nulls every personal field
\* and sets the privacy flags to exactly {show_profile: false}, and a viewer
\* who is neither the owner nor an admin, reading a profile in that state,
\* gets the hidden view of it.
C32_SoftDeleteHidesProfile ==
    /\ SoftDeleteStored
    /\ (/\ last.op = "get_profile"
        /\ last.stored # None
        /\ SoftDeleted(last.stored)
        /\ last.req # last.target
        /\ last.reqRole # "admin")
          => /\ last.kind = "ok"
             /\ last.out["id"] = last.target
             /\ last.out["privacy_settings"] = Some([show_profile |-> FALSE])
             /\ \A f \in PiiFields : last.out[f] = None

----------------------------------------------------------------------------
(* Properties of concurrent logins and lockout (checked under SpecConc) *)

\* request p ends with tokens in this step
ReturnsTokens(p) == reqOut[p].kind # "ok" /\ reqOut'[p].kind = "ok"

\* C33: under any interleaving of concurrent logins for one account, no
\* login returns tokens while the store records a lockout_until later than
\* now for that account; a correct-password login that read the account
\* before another request locked it does not succeed after the lock is stored.
C33_NoTokensWhileLocked ==
    [][\A p \in Requests : ReturnsTokens(p) => Unlocked(users[Target], now)]_vars

----------------------------------------------------------------------------
(* Properties of lockout expiry (checked under Spec) *)

\* a login with a wrong password on an account whose lockout has passed
FailedAfterLockoutExpiry ==
    /\ last.op = "login"
    /\ last.found
    /\ last.pre.lockout_until # None
    /\ last.pre.lockout_until[1] <= last.at
    /\ ~verify_password(last.password, last.pre.password_hash)

\* that login counts as one more failure and locks the account again
RelockedAtOnce ==
    FailedAfterLockoutExpiry
    => /\ last.kind = "Unauthorized"
       /\ last.msg = "Invalid email or password"
       /\ users[last.user].failed_login_attempts = last.pre.failed_login_attempts + 1
       /\ users[last.user].failed_login_attempts >= LOCKOUT_THRESHOLD
       /\ users[last.user].lockout_until =
              DbDateTime(DtPlus(Aware(last.at), LOCKOUT_MINUTES * Minute))

\* the count goes back to 0 in a successful login and in no other step
OnlySuccessResets ==
    \A u \in DOMAIN users :
        (/\ u \in DOMAIN users'
         /\ users[u].failed_login_attempts > 0
         /\ users'[u].failed_login_attempts = 0)
        => (last'.op = "login" /\ last'.kind = "ok" /\ last'.user = u)

\* C34: expiry of a lockout does not reset the failed-attempt count: the
\* first failed login after the window raises the count above the threshold
\* and locks the account again at once for a new 15-minute window, and only
\* a successful login brings the count back to 0.
C34_ExpiredLockoutKeepsCount ==
    []RelockedAtOnce /\ [][OnlySuccessResets]_vars

----------------------------------------------------------------------------
(* Properties of privacy updates (checked under SpecProfile) *)

\* C35: update_profile_privacy replaces the stored privacy-flag mapping with
\* exactly the submitted mapping: flags that were stored but are not in the
\* request are dropped, and a profile whose mapping has no show_profile is
\* shown in full to a viewer who is neither the owner nor an admin.
C35_PrivacyUpdateReplaces ==
    /\ (last.op = "update_profile_privacy" /\ last.kind = "ok")
          => profiles[last.target].privacy_settings = Some(last.settings)
    /\ (/\ last.op = "get_profile"
        /\ last.stored # None
        /\ last.stored.privacy_settings # None
        /\ "show_profile" \notin DOMAIN last.stored.privacy_settings[1]
        /\ last.req # last.target
        /\ last.reqRole # "admin")
          => /\ last.kind = "ok"
             /\ last.out = ModelValidate(last.target, last.stored).out

\* {show_email: false} was submitted for a profile that stored
\* show_profile = false, and the clinician now sees the stored row in full
C35_Witness ==
    /\ last.op = "update_profile_privacy"
    /\ last.kind = "ok"
    /\ last.target = "u2"
    /\ HidesProfile(last.pre.privacy_settings)
    /\ last.settings = [show_email |-> FALSE]
    /\ "show_profile" \notin DOMAIN profiles["u2"].privacy_settings[1]
    /\ PrivacyFilterAs("u2", profiles["u2"], "u3", "clinician")
          = ModelValidate("u2", profiles["u2"])
    /\ ModelValidate("u2", profiles["u2"]).kind = "ok"

----------------------------------------------------------------------------
(* Properties of the staleness check (checked under SpecToken) *)

\* tok was issued by a login later than the account's last password change
IssuedAfterPasswordChange(tok) ==
    /\ tok \in tokens
    /\ IssuedAsRefresh(tok)
    /\ tok.sub \in DOMAIN users
    /\ \/ users[tok.sub].password_changed_at = None
       \/ tok.at > users[tok.sub].password_changed_at[1]

\* C36: the staleness check never rejects a fresh token: a refresh token
\* issued by a login that completes after the account's most recent password
\* change is accepted by refresh until it expires, also when the issued-at
\* claim and password_changed_at fall in the same second.
C36_FreshTokenNotStale ==
    (/\ last.op = "refresh_token"
     /\ IssuedAfterPasswordChange(last.tok)
     /\ jwt_decode(last.tok, REFRESH_SECRET_KEY, last.at) = "ok")
    => last.kind = "ok"

----------------------------------------------------------------------------
(* Properties of account lookup (checked under SpecUsers) *)

\* C37: in get_user_by_id and update_user the lookup precedes authorization:
\* for a requester who is neither admin nor the target the outcome is
\* PermissionDenied when the target account exists and NotFound when it does
\* not, so the outcome tells such a requester whether the id exists.
C37_LookupBeforeAuthorization ==
    (/\ last.op \in {"get_user_by_id", "update_user"}
     /\ last.req # last.target
     /\ last.reqRole # "admin")
    => last.kind = IF last.target \in DOMAIN users
                   THEN "PermissionDenied" ELSE "NotFound"

\* the standard user was refused the admin's account, and the same request
\* for an id that has no account would end with NotFound
C37_Witness ==
    /\ last.op = "get_user_by_id"
    /\ last.req = "u2"
    /\ last.target = "u1"
    /\ last.kind = "PermissionDenied"
    /\ "u3" \notin DOMAIN users
    /\ GetUserKind("u2", "u3") = "NotFound"
    /\ UpdateUserKind("u2", "u3") = "NotFound"
    /\ UpdateUserKind("u2", "u1") = "PermissionDenied"

----------------------------------------------------------------------------
(* Properties of calls without a requester (checked under SpecAccess) *)

UncheckedOps ==
    {"update_user_status", "delete_user", "update_profile",
     "update_profile_privacy", "delete_profile"}

\* C38: no service operation mutates an account or profile on behalf of an
\* absent requester: update_user_status, delete_user, update_profile,
\* update_profile_privacy and delete_profile called with requesting_user =
\* None on an existing target are refused and change nothing.
C38_AbsentRequesterRefused ==
    [][(/\ last'.op \in UncheckedOps
        /\ last'.req = Anonymous
        /\ last'.kind # "NotFound")
       => /\ last'.kind = "PermissionDenied"
          /\ users' = users
          /\ profiles' = profiles]_vars

----------------------------------------------------------------------------
(* Properties of the rate limiter (checked under SpecRate) *)

NoWindow == [start |-> -1, granted |-> 0]

\* the window of key k after the calls of log: the clock reading of the
\* allowed call that opened it and the calls allowed in it so far
RECURSIVE WindowOf(_, _)
WindowOf(log, k) ==
    IF log = <<>> THEN NoWindow
    ELSE LET w == WindowOf(SubSeq(log, 1, Len(log) - 1), k)
             c == log[Len(log)]
         IN  IF c.key # k \/ ~c.allowed THEN w
             ELSE IF w = NoWindow \/ c.at - w.start >= RateWindow
             THEN [start |-> c.at, granted |-> 1]
             ELSE [w EXCEPT !.granted = @ + 1]

\* the count key k has at clock reading t: that of its entry while the
\* entry's window lasts
CountOf(reqs, k, t) ==
    IF k \in DOMAIN reqs /\ t - reqs[k].first_request < RateWindow
    THEN reqs[k].count ELSE 0

\* C39: RateLimiter.is_allowed is a fixed-window limiter per key: counting
\* from a key's first allowed request at most max_requests calls for the key
\* return True within window_seconds, every further call in the window
\* returns False and leaves the count as it is, the first call once the
\* window has elapsed returns True and starts a new window with count 1,
\* and a call for one key never changes the count of another key.
C39_FixedWindowPerKey ==
    /\ \A k \in Keys : WindowOf(calls, k).granted <= RateMaxRequests
    /\ \A k \in DOMAIN requests :
          requests[k] = [count |-> WindowOf(calls, k).granted,
                         first_request |-> WindowOf(calls, k).start]
    /\ calls # <<>>
       => LET c == calls[Len(calls)]
              w == WindowOf(SubSeq(calls, 1, Len(calls) - 1), c.key)
              elapsed == w = NoWindow \/ c.at - w.start >= RateWindow
          IN  /\ elapsed => (c.allowed /\ requests[c.key].count = 1
                                       /\ requests[c.key].first_request = c.at)
              /\ (~elapsed /\ w.granted < RateMaxRequests) => c.allowed
              /\ (~elapsed /\ w.granted >= RateMaxRequests)
                    => (~c.allowed /\ requests[c.key] = last.pre[c.key])
              /\ \A k \in Keys \ {c.key} :
                    CountOf(requests, k, c.at) = CountOf(last.pre, k, c.at)

\* a key used up its window, was refused, and its first call after the
\* window opened a new one, while the other key's window was still running
C39_Witness ==
    /\ Len(calls) >= RateMaxRequests + 2
    /\ LET c == calls[Len(calls)] IN
       /\ c.allowed
       /\ requests[c.key] = [count |-> 1, first_request |-> c.at]
       /\ \E i, j \in 1..(Len(calls) - 1) :
             /\ calls[i].key = c.key /\ ~calls[i].allowed
             /\ calls[j].key # c.key
             /\ CountOf(requests, calls[j].key, c.at) > 0
       /\ c.key \in DOMAIN last.pre

====
